---- MODULE Spec2Model ----
(***************************************************************************)
(* Model of the hierarchical finite state machine engine of src/hfsm.c.    *)
(*                                                                         *)
(* The engine is single-threaded and synchronous: every public call        *)
(* (fsm_init, fsm_transition, fsm_update, fsm_term) runs to completion.    *)
(* Each public call is one action.  What the call did, step by step        *)
(* (guards evaluated, actions run, exit and entry steps, writes of the     *)
(* current state and of history), is recorded in `log`, the trace of the   *)
(* last call; `pre` keeps the machine as it was when the call started.     *)
(* Guards are integrator callbacks returning a boolean: their results are  *)
(* inputs of the call.                                                     *)
(***************************************************************************)
EXTENDS Integers, Sequences, FiniteSets, TLC

VARIABLES cfg, current, svar, status, log, call, pre

vars == <<cfg, current, svar, status, log, call, pre>>

(***************************************************************************)
(* Program constants and singletons.                                       *)
(***************************************************************************)
NEST_MAX == 5

NULL == "NULL"

state_start == "start"

state_end == "end"

event_null == "null"

\* The slot of the function-local static `null_obj` of get_state_variable.
null_obj == "null_obj"

(***************************************************************************)
(* The static tables an integrator hands to the engine.  A configuration   *)
(* is a set of state descriptors (which callbacks each declares, whether   *)
(* it owns a variable), a relation table and a transition table.           *)
(***************************************************************************)
States == {"start", "end", "A", "B", "P", "C1", "C2", "G1", "G2", "Q", "Q1",
           "L1", "L2", "L3", "L4", "L5", "R", "X", "Y"}

Events == {"null", "go", "next", "out", "up", "self", "tick", "in", "back",
           "deep", "unk"}

Slots == States \cup {null_obj}

Rel(oneself, parent, is_default) ==
    [oneself |-> oneself, parent |-> parent, is_default |-> is_default]

Row(from, event, cond, action, to) ==
    [from |-> from, event |-> event, cond |-> cond, action |-> action, to |-> to]

\* Configuration 1: two composites (P with a nested composite C2, Q without
\* a default child) and two top-level leaves that own no variable.
Cfg1 ==
    [ variable |-> {"P", "C1", "C2", "G1", "G2", "Q", "Q1"},
      entry    |-> {"A", "B", "P", "C1", "C2", "G1", "Q", "Q1"},
      exit     |-> {"B", "P", "C1", "C2", "G1", "G2", "Q"},
      exec     |-> {"A", "C1", "G1", "Q"},
      rels     |-> << Rel("C1", "P", TRUE),  Rel("C2", "P", FALSE),
                      Rel("G1", "C2", TRUE), Rel("G2", "C2", FALSE),
                      Rel("Q1", "Q", FALSE) >>,
      corresps |-> << Row("start", "null", NULL, "a_init", "A"),
                      Row("A",  "go",   NULL, NULL,  "P"),
                      Row("C1", "next", NULL, NULL,  "C2"),
                      Row("G1", "next", "g1", "a1",  "G2"),
                      Row("G1", "next", "g2", "a2",  "B"),
                      Row("C2", "next", NULL, "a3",  "C1"),
                      Row("P",  "next", NULL, NULL,  "B"),
                      Row("P",  "out",  NULL, NULL,  "B"),
                      Row("B",  "go",   NULL, NULL,  "P"),
                      Row("C2", "up",   NULL, NULL,  "P"),
                      Row("G2", "self", NULL, NULL,  "G2"),
                      Row("P",  "tick", "g3", "a4",  NULL),
                      Row("B",  "in",   NULL, NULL,  "Q"),
                      Row("Q",  "in",   NULL, NULL,  "Q1"),
                      Row("Q1", "out",  NULL, NULL,  "G2"),
                      Row("B",  "null", "g4", NULL,  "A"),
                      Row("A",  "null", NULL, NULL,  "B"),
                      Row("Q1", "back", NULL, NULL,  "A") >> ]

\* Configuration 2: one branch nested to the capacity of the scratch stacks,
\* every level the default child of the level above.
Cfg2 ==
    [ variable |-> {"L1", "L2", "L3", "L4", "L5"},
      entry    |-> {"A", "L1", "L2", "L3", "L4", "L5"},
      exit     |-> {"A", "L1", "L2", "L4", "L5"},
      exec     |-> {"L5"},
      rels     |-> << Rel("L2", "L1", TRUE), Rel("L3", "L2", TRUE),
                      Rel("L4", "L3", TRUE), Rel("L5", "L4", TRUE) >>,
      corresps |-> << Row("start", "null", "g1", NULL, "A"),
                      Row("start", "go",   NULL, NULL, "A"),
                      Row("A",  "go",   NULL, NULL,  "L1"),
                      Row("A",  "deep", NULL, "a1",  "L4"),
                      Row("L5", "go",   "g2", NULL,  "A"),
                      Row("L1", "out",  NULL, NULL,  "A"),
                      Row("L3", "up",   NULL, NULL,  "L1"),
                      Row("L5", "self", NULL, "a2",  "L5"),
                      Row("L2", "tick", NULL, "a3",  NULL),
                      Row("A",  "self", NULL, NULL,  "A") >> ]

Configs == <<Cfg1, Cfg2>>

CfgIds == DOMAIN Configs

\* Configuration 3: the composite R is declared without a variable, so the
\* relation rows and the exits of its children write the history of R into
\* the shared empty variable, which is also what start, end, A and B read.
Cfg3 ==
    [ variable |-> {"X", "Y"},
      entry    |-> {"A", "B", "R", "X", "Y"},
      exit     |-> {"B", "R", "X"},
      exec     |-> {"X"},
      rels     |-> << Rel("X", "R", FALSE), Rel("Y", "R", FALSE) >>,
      corresps |-> << Row("start", "null", NULL, NULL, "A"),
                      Row("A",  "go",   NULL, NULL,  "X"),
                      Row("X",  "next", NULL, "a1",  "Y"),
                      Row("Y",  "next", "g1", NULL,  "X"),
                      Row("R",  "out",  NULL, NULL,  "B"),
                      Row("B",  "go",   NULL, NULL,  "A"),
                      Row("R",  "tick", "g2", "a2",  NULL),
                      Row("X",  "self", NULL, NULL,  "X") >> ]

\* Configuration 4: every state of the relation table owns its variable,
\* but X is the child of two relation rows: it is seeded as the history of
\* P by the first and gets Q as its parent by the second.
Cfg4 ==
    [ variable |-> {"P", "Q", "X", "Y"},
      entry    |-> {"A", "P", "Q", "X", "Y"},
      exit     |-> {"A", "P", "Q", "Y"},
      exec     |-> {"Y"},
      rels     |-> << Rel("X", "P", TRUE), Rel("X", "Q", FALSE),
                      Rel("Y", "Q", FALSE) >>,
      corresps |-> << Row("start", "null", NULL, NULL, "A"),
                      Row("A",  "go",   NULL, NULL,  "P"),
                      Row("X",  "next", NULL, NULL,  "Y"),
                      Row("Q",  "out",  "g1", "a1",  "A"),
                      Row("A",  "in",   NULL, NULL,  "Q"),
                      Row("Y",  "go",   NULL, NULL,  "P"),
                      Row("Q",  "tick", NULL, "a2",  NULL) >> ]

\* Configuration 5: the initial transition out of start is guarded and
\* targets a composite with two levels of default children.
Cfg5 ==
    [ variable |-> {"P", "X", "Y"},
      entry    |-> {"P", "X", "Y"},
      exit     |-> {"P", "Y"},
      exec     |-> {"Y"},
      rels     |-> << Rel("X", "P", TRUE), Rel("Y", "X", TRUE) >>,
      corresps |-> << Row("start", "null", "g1", "a1", "P"),
                      Row("start", "null", "g2", "a2", NULL),
                      Row("start", "go",   NULL, NULL, "X"),
                      Row("P",  "out",  NULL, NULL,  "A"),
                      Row("A",  "go",   NULL, NULL,  "P"),
                      Row("P",  "null", NULL, "a3",  "A") >> ]

\* Every table the integrator may hand over, the ill-formed ones included.
AnyConfigs == Configs \o <<Cfg3, Cfg4, Cfg5>>

Cfg == AnyConfigs[cfg]

Corresps == Cfg.corresps

\* The guarded rows a scan for `event` can reach.
GuardedRows(event) ==
    {i \in DOMAIN Corresps : Corresps[i].cond # NULL /\ Corresps[i].event = event}

(***************************************************************************)
(* The machine while a call runs: the fields of struct fsm the algorithm   *)
(* reads and writes, the state variables, and the trace of the call.       *)
(* `pass`, `depth` and `build` are bookkeeping for the trace: which        *)
(* dispatch pass is running, how deep the history continuation is nested,  *)
(* and whether assertions are compiled in.                                 *)
(***************************************************************************)
Blank ==
    [op |-> "", st |-> NULL, to |-> NULL, ev |-> NULL, row |-> 0,
     flag |-> FALSE, called |-> FALSE, depth |-> 0, pass |-> ""]

\* v bound to x in F(x), v evaluated once.
Bind(v, F(_)) == CHOOSE r \in {F(x) : x \in {v}} : TRUE

Log(m, e) ==
    [m EXCEPT !.log = Append(@, [e EXCEPT !.depth = m.depth, !.pass = m.pass])]

\* The collaborator stack: fixed capacity, push onto a full stack stores
\* nothing, pop of an empty stack returns the empty sentinel and leaves the
\* caller's element untouched.
stack_push(stk, x) == IF Len(stk) < NEST_MAX THEN Append(stk, x) ELSE stk

stack_pop(stk, old) ==
    IF Len(stk) = 0
    THEN [val |-> old, count |-> -1, stk |-> stk]
    ELSE [val |-> stk[Len(stk)], count |-> Len(stk) - 1,
          stk |-> SubSeq(stk, 1, Len(stk) - 1)]

get_state_variable(state) ==
    IF state \in Cfg.variable THEN state ELSE null_obj

parent_of(m, state) == m.svar[get_state_variable(state)].parent

\* Mutant: the recorded history is never read back.
history_of_None(m, state) == NULL

history_of(m, state) == m.svar[get_state_variable(state)].history

\* Mutant: the completion flag of the entry callback is inverted.
entry_if_can_be_Inverted(m, state, cmpl) ==
    Log(m, [Blank EXCEPT !.op = "entry", !.st = state, !.flag = ~cmpl,
                         !.called = (state \in Cfg.entry)])

entry_if_can_be(m, state, cmpl) ==
    Log(m, [Blank EXCEPT !.op = "entry", !.st = state, !.flag = cmpl,
                         !.called = (state \in Cfg.entry)])

exec_if_can_be(m) ==
    Log(m, [Blank EXCEPT !.op = "exec", !.st = m.current,
                         !.called = (m.current \in Cfg.exec)])

\* Mutant: the exit clears the history of the parent.
SetHistory_Clears(m, parent, state) ==
    IF parent # NULL
    THEN Log([m EXCEPT !.svar[get_state_variable(parent)].history = NULL],
             [Blank EXCEPT !.op = "hist", !.st = parent, !.to = NULL])
    ELSE m

\* The write of exit_if_can_be to the parent's history.
SetHistory(m, parent, state) ==
    IF parent # NULL
    THEN Log([m EXCEPT !.svar[get_state_variable(parent)].history = state],
             [Blank EXCEPT !.op = "hist", !.st = parent, !.to = state])
    ELSE m

exit_if_can_be(m, state, cmpl) ==
    Bind(Log(m, [Blank EXCEPT !.op = "exit", !.st = state, !.flag = cmpl,
                              !.called = (state \in Cfg.exit)]),
         LAMBDA m1 : SetHistory(m1, parent_of(m, state), state))

RECURSIVE PushAncestors(_, _, _)
PushAncestors(m, stk, state) ==
    IF state = NULL
    THEN stk
    ELSE PushAncestors(m, stack_push(stk, state), parent_of(m, state))

\* The do-while of fsm_change_state that pops both stacks while the popped
\* elements are equal.  Two stacks emptied together never leave the loop.
PopStep(s, d) ==
    [src_state |-> s.val, dest_state |-> d.val, count |-> d.count,
     src_ancs |-> s.stk, dest_ancs |-> d.stk,
     hang |-> (s.val = d.val /\ s.count < 0 /\ d.count < 0)]

RECURSIVE PopWhileEqual(_, _)
PopWhileEqual(src_ancs, dest_ancs) ==
    Bind(PopStep(stack_pop(src_ancs, NULL), stack_pop(dest_ancs, NULL)),
         LAMBDA p : IF p.src_state = p.dest_state /\ ~p.hang
                    THEN PopWhileEqual(p.src_ancs, p.dest_ancs)
                    ELSE p)

Crash(m, how) == [Log(m, [Blank EXCEPT !.op = "crash"]) EXCEPT !.status = how]

RECURSIVE ExitLoop(_, _, _)

\* Mutant: every exit of the cascade is flagged as the completing one.
ExitLoop_AlwaysCompleted(m, src_state, ancestor) ==
    IF src_state = ancestor
    THEN m
    ELSE IF src_state = NULL
    THEN Crash(m, IF m.build = "debug" THEN "abort" ELSE "segv")
    ELSE ExitLoop(exit_if_can_be(m, src_state, TRUE),
                  parent_of(m, src_state), ancestor)

ExitLoop(m, src_state, ancestor) ==
    IF src_state = ancestor
    THEN m
    ELSE IF src_state = NULL
    THEN Crash(m, IF m.build = "debug" THEN "abort" ELSE "segv")
    ELSE ExitLoop(exit_if_can_be(m, src_state, parent_of(m, src_state) = ancestor),
                  parent_of(m, src_state), ancestor)

\* The do-while of the entry cascade; p is the element popped for the next
\* round.  Returns the machine and the last dest_state.
RECURSIVE EntryLoop(_, _, _)
EntryLoop(m, dest_state, p) ==
    IF p.count >= 0
    THEN EntryLoop(entry_if_can_be(m, p.val, p.count = 0), p.val,
                   stack_pop(p.stk, p.val))
    ELSE [m |-> m, dest_state |-> dest_state]

SetCurrent(m, new_state) ==
    Log([m EXCEPT !.current = new_state],
        [Blank EXCEPT !.op = "setcur", !.to = new_state])

Return(m, new_state, depth) ==
    IF m.status # "ok"
    THEN m
    ELSE Log([m EXCEPT !.depth = depth],
             [Blank EXCEPT !.op = "return", !.st = m.current, !.to = new_state])

\* Mutant: the exit cascade always runs up to the top of the hierarchy.
AncestorOf_Root(m, lca) == NULL

\* ancestor = (src_state != NULL) ? parent of src_state : machine->current
AncestorOf(m, lca) ==
    IF lca.src_state # NULL THEN parent_of(m, lca.src_state) ELSE m.current

RECURSIVE fsm_change_state(_, _)

\* Mutant: the state change returns after the entry cascade, without
\* history continuation.
EnterAndContinue_NoDescent(m, new_state, lca) ==
    IF m.status # "ok"
    THEN m
    ELSE IF lca.dest_state = NULL
    THEN Crash(SetCurrent(m, new_state), "segv")
    ELSE Bind(EntryLoop(entry_if_can_be(SetCurrent(m, new_state), lca.dest_state,
                                        lca.count = 0),
                        lca.dest_state, stack_pop(lca.dest_ancs, lca.dest_state)),
              LAMBDA e : Return(e.m, new_state, m.depth))

\* Lines 204-213: the write of current, the entry cascade, the history
\* continuation.
EnterAndContinue(m, new_state, lca) ==
    IF m.status # "ok"
    THEN m
    ELSE IF lca.dest_state = NULL
    THEN \* assertions compiled out: entry_if_can_be reads through NULL
         Crash(SetCurrent(m, new_state), "segv")
    ELSE Bind(EntryLoop(entry_if_can_be(SetCurrent(m, new_state), lca.dest_state,
                                        lca.count = 0),
                        lca.dest_state, stack_pop(lca.dest_ancs, lca.dest_state)),
              LAMBDA e :
                 IF history_of(e.m, e.dest_state) # NULL
                 THEN Return(fsm_change_state([e.m EXCEPT !.depth = @ + 1],
                                              history_of(e.m, e.dest_state)),
                             new_state, m.depth)
                 ELSE Return(e.m, new_state, m.depth))

\* Lines 175-203: ancestor chains, common ancestor, exit cascade.
ExitToAncestor(m, new_state, lca) ==
    IF lca.hang
    THEN Crash(m, "hang")
    ELSE IF lca.dest_state = NULL /\ m.build = "debug"
    THEN \* assert(dest_state != NULL) fails
         Crash(m, "abort")
    ELSE EnterAndContinue(ExitLoop(m, m.current, AncestorOf(m, lca)), new_state, lca)

\* Mutant: the self-transition re-enters the state without leaving it.
SelfTransition_EntryOnly(m, new_state) ==
    Return(entry_if_can_be(m, new_state, TRUE), new_state, m.depth)

\* Lines 164-168: the self-transition.
SelfTransition(m, new_state) ==
    Return(entry_if_can_be(exit_if_can_be(m, m.current, TRUE), new_state, TRUE),
           new_state, m.depth)

fsm_change_state(m, new_state) ==
    Bind(Log(m, [Blank EXCEPT !.op = "change", !.st = m.current, !.to = new_state]),
         LAMBDA m0 :
            IF m0.current = new_state
            THEN SelfTransition(m0, new_state)
            ELSE ExitToAncestor(m0, new_state,
                                PopWhileEqual(PushAncestors(m0, <<>>, m0.current),
                                              PushAncestors(m0, <<>>, new_state))))

(***************************************************************************)
(* Event dispatch.  g gives, for every guarded row of the event, what its  *)
(* guard returns when the scan evaluates it.                               *)
(***************************************************************************)
RunAction(m, i) ==
    IF Corresps[i].action # NULL
    THEN Log(m, [Blank EXCEPT !.op = "action", !.row = i, !.st = Corresps[i].from,
                              !.ev = Corresps[i].event])
    ELSE m

\* Mutant: the state change runs before the action of the row.
TakeRow_ChangeBeforeAction(m, i) ==
    Bind(Log(m, [Blank EXCEPT !.op = "taken", !.row = i, !.st = Corresps[i].from,
                              !.ev = Corresps[i].event, !.to = Corresps[i].to]),
         LAMBDA m2 :
            IF Corresps[i].to # NULL
            THEN [RunAction(fsm_change_state(m2, Corresps[i].to), i) EXCEPT !.ret = TRUE]
            ELSE [RunAction(m2, i) EXCEPT !.ret = TRUE])

\* Mutant: a row without destination leaves and re-enters the current state.
TakeRow_InternalReenters(m, i) ==
    Bind(Log(RunAction(m, i),
             [Blank EXCEPT !.op = "taken", !.row = i, !.st = Corresps[i].from,
                           !.ev = Corresps[i].event, !.to = Corresps[i].to]),
         LAMBDA m2 :
            IF Corresps[i].to # NULL
            THEN [fsm_change_state(m2, Corresps[i].to) EXCEPT !.ret = TRUE]
            ELSE [fsm_change_state(m2, m2.current) EXCEPT !.ret = TRUE])

\* Lines 243-271: the action, the diagnostic line, the state change.
TakeRow(m, i) ==
    Bind(Log(RunAction(m, i),
             [Blank EXCEPT !.op = "taken", !.row = i, !.st = Corresps[i].from,
                           !.ev = Corresps[i].event, !.to = Corresps[i].to]),
         LAMBDA m2 :
            IF Corresps[i].to # NULL
            THEN [fsm_change_state(m2, Corresps[i].to) EXCEPT !.ret = TRUE]
            ELSE [m2 EXCEPT !.ret = TRUE])

EvalGuard(m, i, g) ==
    IF Corresps[i].cond = NULL
    THEN m
    ELSE Log(m, [Blank EXCEPT !.op = "guard", !.row = i, !.st = Corresps[i].from,
                              !.ev = Corresps[i].event, !.flag = g[i]])

RECURSIVE ScanRows(_, _, _, _, _)

\* Mutant: the first row that matches from/event is final, the scan stops
\* when its guard rejects.
ScanRows_FirstMatchFinal(m, state, event, i, g) ==
    IF i > Len(Corresps)
    THEN [Log(m, [Blank EXCEPT !.op = "fail", !.st = state, !.ev = event])
            EXCEPT !.ret = FALSE]
    ELSE IF Corresps[i].from = state /\ Corresps[i].event = event
    THEN Bind(EvalGuard(m, i, g),
              LAMBDA m1 : IF Corresps[i].cond = NULL \/ g[i]
                          THEN TakeRow(m1, i)
                          ELSE [Log(m1, [Blank EXCEPT !.op = "fail", !.st = state,
                                                      !.ev = event])
                                  EXCEPT !.ret = FALSE])
    ELSE ScanRows(m, state, event, i + 1, g)

\* Mutant: the row is taken whatever its guard returns.
ScanRows_IgnoreGuard(m, state, event, i, g) ==
    IF i > Len(Corresps)
    THEN [Log(m, [Blank EXCEPT !.op = "fail", !.st = state, !.ev = event])
            EXCEPT !.ret = FALSE]
    ELSE IF Corresps[i].from = state /\ Corresps[i].event = event
    THEN TakeRow(EvalGuard(m, i, g), i)
    ELSE ScanRows(m, state, event, i + 1, g)

ScanRows(m, state, event, i, g) ==
    IF i > Len(Corresps)
    THEN [Log(m, [Blank EXCEPT !.op = "fail", !.st = state, !.ev = event])
            EXCEPT !.ret = FALSE]
    ELSE IF Corresps[i].from = state /\ Corresps[i].event = event
    THEN Bind(EvalGuard(m, i, g),
              LAMBDA m1 : IF Corresps[i].cond = NULL \/ g[i]
                          THEN TakeRow(m1, i)
                          ELSE ScanRows(m1, state, event, i + 1, g))
    ELSE ScanRows(m, state, event, i + 1, g)

fsm_state_transit(m, state, event, g) ==
    ScanRows(Log(m, [Blank EXCEPT !.op = "transit", !.st = state, !.ev = event]),
             state, event, 1, g)

RECURSIVE BubbleLoop(_, _, _, _)

\* Mutant: the loop goes on to the parent after a row was taken.
BubbleLoop_NoStop(m, state, event, g) ==
    IF state = NULL
    THEN m
    ELSE Bind(fsm_state_transit(m, state, event, g),
              LAMBDA r : IF r.status # "ok"
                         THEN r
                         ELSE BubbleLoop(r, parent_of(r, state), event, g))

BubbleLoop(m, state, event, g) ==
    IF state = NULL
    THEN m
    ELSE Bind(fsm_state_transit(m, state, event, g),
              LAMBDA r : IF r.status # "ok" \/ r.ret
                         THEN r
                         ELSE BubbleLoop(r, parent_of(r, state), event, g))

\* Mutant: the closing null-event dispatch bubbles like the first pass.
NullPass_Bubbles(m, g) ==
    IF m.status # "ok"
    THEN m
    ELSE BubbleLoop([m EXCEPT !.pass = "null"], m.current, event_null, g)

\* Mutant: no null-event dispatch after the bubbling pass.
NullPass_Skipped(m, g) == m

NullPass(m, g) ==
    IF m.status # "ok"
    THEN m
    ELSE fsm_state_transit([m EXCEPT !.pass = "null"], m.current, event_null, g)

\* Mutant: the bubbling pass dispatches the null event instead of the event.
fsm_transition_WrongEvent(m, event, g1, g2) ==
    NullPass(BubbleLoop([m EXCEPT !.pass = "bubble"], m.current, event_null, g2), g2)

fsm_transition(m, event, g1, g2) ==
    NullPass(BubbleLoop([m EXCEPT !.pass = "bubble"], m.current, event, g1), g2)

\* One round of the loop of fsm_init over the relation table.
ApplyRel(m, r) ==
    Log([m EXCEPT !.svar =
            [v \in Slots |->
               [parent  |-> IF v = get_state_variable(r.oneself)
                            THEN r.parent ELSE m.svar[v].parent,
                history |-> IF r.is_default /\ v = get_state_variable(r.parent)
                            THEN r.oneself ELSE m.svar[v].history]]],
        [Blank EXCEPT !.op = "rel", !.st = r.oneself, !.to = r.parent,
                      !.flag = r.is_default])

RECURSIVE ApplyRels(_, _)
ApplyRels(m, i) ==
    IF i > Len(Cfg.rels) THEN m ELSE ApplyRels(ApplyRel(m, Cfg.rels[i]), i + 1)

\* Mutant: the null event is dispatched before the relation rows are applied.
fsm_init_DispatchFirst(m, g) ==
    ApplyRels(fsm_state_transit([m EXCEPT !.current = state_start, !.pass = "init"],
                                state_start, event_null, g), 1)

fsm_init(m, g) ==
    fsm_state_transit(ApplyRels([m EXCEPT !.current = state_start, !.pass = "init"], 1),
                      state_start, event_null, g)

Free(m) == IF m.status = "ok" THEN [m EXCEPT !.status = "freed"] ELSE m

fsm_term(m) == Free(fsm_change_state([m EXCEPT !.pass = "term"], state_end))

fsm_update(m) == exec_if_can_be([m EXCEPT !.pass = "update"])

(***************************************************************************)
(* The state machine of the program: one action per public call.           *)
(***************************************************************************)
Machine(build) ==
    [current |-> current, svar |-> svar, status |-> status, log |-> <<>>,
     ret |-> FALSE, depth |-> 0, pass |-> "", build |-> build]

Snapshot == [current |-> current, svar |-> svar]

Commit(m, op, ev) ==
    /\ current' = m.current
    /\ svar' = m.svar
    /\ status' = m.status
    /\ log' = m.log
    /\ call' = [op |-> op, ev |-> ev, ret |-> m.ret]
    /\ pre' = Snapshot
    /\ UNCHANGED cfg

Builds == {"debug", "ndebug"}

Init ==
    /\ cfg \in CfgIds
    /\ current = NULL
    /\ svar = [s \in Slots |-> [parent |-> NULL, history |-> NULL]]
    /\ status = "new"
    /\ log = <<>>
    /\ call = [op |-> "none", ev |-> NULL, ret |-> FALSE]
    /\ pre = [current |-> NULL,
              svar |-> [s \in Slots |-> [parent |-> NULL, history |-> NULL]]]

\* fsm_init with a transition table
FsmInit ==
    /\ status = "new"
    /\ \E g \in [GuardedRows(event_null) -> BOOLEAN] :
          \E m \in {fsm_init([Machine("debug") EXCEPT !.status = "ok"], g)} :
             Commit(m, "init", NULL)

\* fsm_init(rels, NULL): EINVAL, no machine
FsmInitNoTable ==
    /\ status = "new"
    /\ Commit([Machine("debug") EXCEPT !.status = "einval"], "init", NULL)

FsmTransition ==
    /\ status = "ok"
    /\ \E event \in Events, build \in Builds :
       \E g1 \in [GuardedRows(event) -> BOOLEAN],
          g2 \in [GuardedRows(event_null) -> BOOLEAN] :
          \E m \in {fsm_transition(Machine(build), event, g1, g2)} :
             Commit(m, "fire", event)

FsmUpdate ==
    /\ status = "ok"
    /\ \E m \in {fsm_update(Machine("debug"))} : Commit(m, "update", NULL)

FsmTerm ==
    /\ status = "ok"
    /\ \E build \in Builds :
       \E m \in {fsm_term(Machine(build))} : Commit(m, "term", NULL)

Next == FsmInit \/ FsmInitNoTable \/ FsmTransition \/ FsmUpdate \/ FsmTerm

Spec == Init /\ [][Next]_vars

\* The same program handed any of the tables, the ill-formed ones included.
InitAny ==
    /\ cfg \in DOMAIN AnyConfigs
    /\ current = NULL
    /\ svar = [s \in Slots |-> [parent |-> NULL, history |-> NULL]]
    /\ status = "new"
    /\ log = <<>>
    /\ call = [op |-> "none", ev |-> NULL, ret |-> FALSE]
    /\ pre = [current |-> NULL,
              svar |-> [s \in Slots |-> [parent |-> NULL, history |-> NULL]]]

SpecAny == InitAny /\ [][Next]_vars

(***************************************************************************)
(* Vocabulary of the properties: the declared hierarchy as the state       *)
(* variables hold it, and the steps of one pass of the state change        *)
(* algorithm as the trace of the last call shows them.                     *)
(***************************************************************************)
ParentAt(s) == svar[get_state_variable(s)].parent

HistoryAt(s) == svar[get_state_variable(s)].history

Range(q) == {q[k] : k \in DOMAIN q}

\* s, its parent, the parent's parent, ... up to a state without parent
RECURSIVE ChainOf(_)
ChainOf(s) == IF s = NULL THEN <<>> ELSE <<s>> \o ChainOf(ParentAt(s))

AncestorsOf(s) == Range(ChainOf(s)) \ {s}

Reverse(q) == [k \in 1..Len(q) |-> q[Len(q) + 1 - k]]

\* the elements of q before the first one that is in S
PrefixBefore(q, S) ==
    SubSeq(q, 1, Cardinality({k \in DOMAIN q : \A j \in 1..k : q[j] \notin S}))

\* from a up to, not including, the first state that is b or above b
ExitPath(a, b) == PrefixBefore(ChainOf(a), Range(ChainOf(b)))

\* from the child of the common ancestor on b's side down to b
EntryPath(a, b) == Reverse(PrefixBefore(ChainOf(b), Range(ChainOf(a))))

ExpectedSteps(a, b) ==
    [k \in 1..Len(ExitPath(a, b)) |-> <<"exit", ExitPath(a, b)[k]>>]
    \o [k \in 1..Len(EntryPath(a, b)) |-> <<"entry", EntryPath(a, b)[k]>>]

IsChange(i) == i \in DOMAIN log /\ log[i].op = "change"

\* where the pass that starts at i ends: its return, its crash, or the change
\* record of its history continuation
PassEnd(i) ==
    IF \E j \in (i + 1)..Len(log) : log[j].op \in {"change", "return", "crash"}
    THEN CHOOSE j \in (i + 1)..Len(log) :
            /\ log[j].op \in {"change", "return", "crash"}
            /\ \A k \in (i + 1)..(j - 1) : log[k].op \notin {"change", "return", "crash"}
    ELSE Len(log) + 1

IsStep(e) == e.op \in {"exit", "entry"}

PassRecords(i) == SelectSeq(SubSeq(log, i + 1, PassEnd(i) - 1), IsStep)

\* the exit and entry steps of the pass that starts at i, in order
PassSteps(i) ==
    [k \in 1..Len(PassRecords(i)) |-> <<PassRecords(i)[k].op, PassRecords(i)[k].st>>]

(***************************************************************************)
(* C1: one pass of the state change from A to B (B not A, B not above A)   *)
(* runs the exit step for A and each ancestor of A below the lowest common *)
(* ancestor C, once each, leaf to root, and only then the entry step for   *)
(* each state from C's child on B's side down to B, once each, root to     *)
(* leaf; C is neither exited nor entered.                                  *)
(***************************************************************************)
C1_ExitThenEntry ==
    \A i \in DOMAIN log :
        (/\ IsChange(i)
         /\ log[i].st # log[i].to
         /\ log[i].to \notin AncestorsOf(log[i].st))
        => PassSteps(i) = ExpectedSteps(log[i].st, log[i].to)

\* a pass between two branches under a declared common ancestor, with two
\* states to exit
C1_Witness ==
    \E i \in DOMAIN log :
        /\ IsChange(i)
        /\ log[i].to \notin AncestorsOf(log[i].st)
        /\ Len(ExitPath(log[i].st, log[i].to)) >= 2
        /\ Len(EntryPath(log[i].st, log[i].to)) >= 1
        /\ AncestorsOf(log[i].st) \cap AncestorsOf(log[i].to) # {}
        /\ log[PassEnd(i)].op = "return"

(***************************************************************************)
(* C2: a state change whose target T is a proper ancestor of the current   *)
(* state exits every state from the current leaf up to, not including, T,  *)
(* leaf to root, then runs T's entry step with completed = true, and       *)
(* completes normally.                                                     *)
(***************************************************************************)
C2_AncestorTarget ==
    \A i \in DOMAIN log :
        (IsChange(i) /\ log[i].to \in AncestorsOf(log[i].st))
        => /\ PassSteps(i) =
                 [k \in 1..Len(ExitPath(log[i].st, log[i].to)) |->
                     <<"exit", ExitPath(log[i].st, log[i].to)[k]>>]
                 \o << <<"entry", log[i].to>> >>
           /\ \A j \in (i + 1)..(PassEnd(i) - 1) : log[j].op = "entry" => log[j].flag
           /\ PassEnd(i) \in DOMAIN log
           /\ log[PassEnd(i)].op # "crash"
           /\ status \in {"ok", "freed"}

(***************************************************************************)
(* C3: after a state change whose target T has a recorded history, the     *)
(* current state when the state change returns is the state reached by     *)
(* following history links from T to a state without recorded history;     *)
(* every state on that chain below T is entered once, outer to inner, and  *)
(* none of them is exited.  Stated of the last state change of a call, so  *)
(* that the state variables are those the state change returned with.      *)
(***************************************************************************)
RECURSIVE HistChainOf(_)
HistChainOf(s) ==
    IF HistoryAt(s) = NULL THEN <<>> ELSE <<HistoryAt(s)>> \o HistChainOf(HistoryAt(s))

\* a state change requested by a transition row or by fsm_term (not a
\* history continuation) that has returned
IsReturnedChange(i) ==
    /\ IsChange(i)
    /\ log[i].depth = 0
    /\ \E j \in (i + 1)..Len(log) :
          log[j].op = "return" /\ log[j].depth = 0 /\ log[j].to = log[i].to

IsLastChange(i) ==
    /\ IsReturnedChange(i)
    /\ \A j \in (i + 1)..Len(log) : ~(IsChange(j) /\ log[j].depth = 0)

RecordsAfter(i, op, S) ==
    SelectSeq(SubSeq(log, i + 1, Len(log)), LAMBDA e : e.op = op /\ e.st \in S)

StatesOf(q) == [k \in 1..Len(q) |-> q[k].st]

C3_HistoryDescent ==
    \A i \in DOMAIN log :
        (IsLastChange(i) /\ HistoryAt(log[i].to) # NULL)
        => LET chain == HistChainOf(log[i].to)
           IN  /\ current = chain[Len(chain)]
               /\ StatesOf(RecordsAfter(i, "entry", Range(chain))) = chain
               /\ RecordsAfter(i, "exit", Range(chain)) = <<>>

\* descent through two nested composites, to a child recorded by an exit
\* and not the default one
C3_Witness ==
    \E i \in DOMAIN log :
        /\ IsLastChange(i)
        /\ Len(HistChainOf(log[i].to)) >= 2
        /\ \E r \in Range(Cfg.rels) :
              /\ r.parent = log[i].to
              /\ r.is_default
              /\ r.oneself # HistoryAt(log[i].to)

(***************************************************************************)
(* C4 as stated: when a transition taken from a state outside composite P  *)
(* targets P, and P's default-history child is C1, P's entry callback is   *)
(* invoked with completed = false and then C1's with completed = true, and *)
(* the current state afterwards is C1.                                     *)
(***************************************************************************)
IsDefaultChild(c, p) ==
    \E k \in DOMAIN Cfg.rels :
        /\ Cfg.rels[k] = Rel(c, p, TRUE)
        /\ \A j \in (k + 1)..Len(Cfg.rels) :
              ~(Cfg.rels[j].parent = p /\ Cfg.rels[j].is_default)

\* the last state change of the call is a transition from outside p into p
EntersFromOutside(i, p) ==
    /\ IsLastChange(i)
    /\ i > 1
    /\ log[i - 1].op = "taken"
    /\ log[i].to = p
    /\ log[i].st # p
    /\ p \notin AncestorsOf(log[i].st)

EntryRecords(i) == SelectSeq(SubSeq(log, i + 1, Len(log)), LAMBDA e : e.op = "entry")

\* the entry of p, then immediately the entry of c, with these flags
EntersThen(i, p, pflag, c, cflag) ==
    \E k \in 1..(Len(EntryRecords(i)) - 1) :
        /\ EntryRecords(i)[k].st = p
        /\ EntryRecords(i)[k].flag = pflag
        /\ EntryRecords(i)[k + 1].st = c
        /\ EntryRecords(i)[k + 1].flag = cflag

C4_AsStated ==
    \A i \in DOMAIN log : \A p, c \in States :
        (EntersFromOutside(i, p) /\ IsDefaultChild(c, p))
        => (EntersThen(i, p, FALSE, c, TRUE) /\ current = c)

(***************************************************************************)
(* C4 amended: when a transition taken from a state outside composite P    *)
(* targets P, and P's recorded history (its default child until an exit    *)
(* records another) is C1, which records no history itself, P's entry step *)
(* runs with completed = true (P is the target of its pass) and then C1's  *)
(* with completed = true, and the current state afterwards is C1.          *)
(***************************************************************************)
C4_EntryFlags ==
    \A i \in DOMAIN log : \A p, c \in States :
        (/\ EntersFromOutside(i, p)
         /\ HistoryAt(p) = c
         /\ HistoryAt(c) = NULL)
        => (EntersThen(i, p, TRUE, c, TRUE) /\ current = c)

\* the first entry into a composite, landing on its default child
C4_Witness ==
    \E i \in DOMAIN log : \E p, c \in States :
        /\ EntersFromOutside(i, p)
        /\ IsDefaultChild(c, p)
        /\ HistoryAt(p) = c
        /\ HistoryAt(c) = NULL
        /\ current = c
        /\ c \in Cfg.entry /\ p \in Cfg.entry

(***************************************************************************)
(* C5: event bubbling.  In fire(machine, e) the bubbling pass consults the *)
(* current leaf, then its ancestors one by one, and stops at the nearest   *)
(* state N at which a row for e is taken: exactly that row is taken, its   *)
(* action runs and, if it has a destination, the state change to it        *)
(* departs from the current leaf (not from N); no row of an ancestor above *)
(* N is examined.                                                          *)
(***************************************************************************)
InPass(pass, ops) == SelectSeq(log, LAMBDA e : e.pass = pass /\ e.op \in ops)

C5_Bubbling ==
    call.op = "fire" =>
    LET chain == ChainOf(pre.current)
        tr == StatesOf(InPass("bubble", {"transit"}))
        tk == InPass("bubble", {"taken"})
        ch == SelectSeq(InPass("bubble", {"change"}), LAMBDA e : e.depth = 0)
    IN  /\ Len(tr) >= 1
        /\ Len(tr) <= Len(chain)
        /\ tr = SubSeq(chain, 1, Len(tr))
        /\ Len(tk) <= 1
        /\ Len(tk) = 0 => (tr = chain /\ Len(ch) = 0)
        /\ Len(tk) = 1 =>
             /\ tk[1].st = tr[Len(tr)]
             /\ Corresps[tk[1].row].from = tk[1].st
             /\ Corresps[tk[1].row].event = call.ev
             /\ \A k \in 1..Len(InPass("bubble", {"guard", "action"})) :
                   LET e == InPass("bubble", {"guard", "action"})[k]
                   IN  /\ e.st \in Range(tr)
                       /\ e.st # tk[1].st => (e.op = "guard" /\ ~e.flag)
                       /\ e.op = "action" => e.row = tk[1].row
             /\ (Corresps[tk[1].row].action # NULL)
                   <=> (\E k \in 1..Len(InPass("bubble", {"action"})) : TRUE)
             /\ Corresps[tk[1].row].to = NULL => Len(ch) = 0
             /\ Corresps[tk[1].row].to # NULL =>
                   /\ Len(ch) = 1
                   /\ ch[1].st = pre.current
                   /\ ch[1].to = Corresps[tk[1].row].to

\* every guard at the leaf rejects, the row is taken two levels up, and an
\* ancestor above has a row for the same event
C5_Witness ==
    /\ call.op = "fire"
    /\ \E k \in DOMAIN log :
          /\ log[k].op = "taken" /\ log[k].pass = "bubble"
          /\ log[k].st \in AncestorsOf(pre.current)
          /\ Corresps[log[k].row].to # NULL
          /\ \E j \in 1..k : log[j].op = "guard" /\ log[j].st = pre.current /\ ~log[j].flag
          /\ \E r \in DOMAIN Corresps :
                Corresps[r].event = call.ev /\ Corresps[r].from \in AncestorsOf(log[k].st)
    /\ status = "ok"

(***************************************************************************)
(* C6 as stated: for every non-null event e for which no row keyed on e    *)
(* matches at the current leaf or at any of its ancestors, fire(machine,   *)
(* e) leaves the current state unchanged.                                  *)
(***************************************************************************)
NoRowFor(e, s) ==
    \A k \in DOMAIN Corresps :
        Corresps[k].event = e => Corresps[k].from \notin Range(ChainOf(s))

HasGuardlessNullRow(s) ==
    \E k \in DOMAIN Corresps :
        Corresps[k].from = s /\ Corresps[k].event = event_null /\ Corresps[k].cond = NULL

IsFirstNullRow(k, s) ==
    /\ k \in DOMAIN Corresps
    /\ Corresps[k].from = s
    /\ Corresps[k].event = event_null
    /\ \A j \in 1..(k - 1) : ~(Corresps[j].from = s /\ Corresps[j].event = event_null)

NullDispatches == InPass("null", {"transit"}) \o InPass("init", {"transit"})

IsTransit(i) == i \in DOMAIN log /\ log[i].op = "transit"

TransitEnd(i) ==
    IF \E j \in (i + 1)..Len(log) : log[j].op = "transit"
    THEN CHOOSE j \in (i + 1)..Len(log) :
            /\ log[j].op = "transit"
            /\ \A k \in (i + 1)..(j - 1) : log[k].op # "transit"
    ELSE Len(log) + 1

\* the records of kind op that the dispatch starting at i wrote about row r
RowRecords(i, op, r) ==
    {j \in (i + 1)..(TransitEnd(i) - 1) : log[j].op = op /\ log[j].row = r}

Matching(i) ==
    {r \in DOMAIN Corresps :
        Corresps[r].from = log[i].st /\ Corresps[r].event = log[i].ev}

Rejected(i, r) ==
    /\ Corresps[r].cond # NULL
    /\ \E j \in RowRecords(i, "guard", r) : ~log[j].flag

Accepted(i, r) ==
    \/ Corresps[r].cond = NULL
    \/ \E j \in RowRecords(i, "guard", r) : log[j].flag

Untouched(i, r) ==
    /\ RowRecords(i, "guard", r) = {}
    /\ RowRecords(i, "action", r) = {}
    /\ RowRecords(i, "taken", r) = {}

Failed(i) == \E j \in (i + 1)..(TransitEnd(i) - 1) : log[j].op = "fail"

IsFirstMatch(i, r) == r \in Matching(i) /\ \A q \in Matching(i) : r <= q

(***************************************************************************)
(* C8 as stated: if the first row in declaration order whose from/event    *)
(* equal (state, event) has a guard that rejects, tryDispatch reports      *)
(* failure without evaluating the guard or running the action of any later *)
(* row with the same from/event.                                           *)
(***************************************************************************)
C8_AsStated ==
    \A i \in DOMAIN log : \A r \in DOMAIN Corresps :
        (IsTransit(i) /\ IsFirstMatch(i, r) /\ Rejected(i, r))
        => /\ Failed(i)
           /\ \A q \in Matching(i) : q > r => Untouched(i, q)

(***************************************************************************)
(* C8 amended: if the first row whose from/event equal (state, event) has  *)
(* a guard that rejects, that row's action does not run and the scan goes  *)
(* on to the later rows with the same from/event: the next of them has its *)
(* guard evaluated (or is taken, if it has none), and tryDispatch reports  *)
(* failure only when the guard of every such row rejects.                  *)
(***************************************************************************)
C8_RejectedGuardContinues ==
    \A i \in DOMAIN log : \A r \in DOMAIN Corresps :
        (IsTransit(i) /\ IsFirstMatch(i, r) /\ Rejected(i, r))
        => /\ RowRecords(i, "action", r) = {}
           /\ RowRecords(i, "taken", r) = {}
           /\ \A q \in Matching(i) :
                 (q > r /\ \A x \in Matching(i) : ~(r < x /\ x < q))
                 => IF Corresps[q].cond = NULL
                    THEN RowRecords(i, "taken", q) # {}
                    ELSE RowRecords(i, "guard", q) # {}
           /\ Failed(i) <=> \A q \in Matching(i) : Rejected(i, q)

\* the first row is rejected and a later row with the same from/event is
\* taken
C8_Witness ==
    \E i \in DOMAIN log : \E r, q \in DOMAIN Corresps :
        /\ IsTransit(i)
        /\ IsFirstMatch(i, r)
        /\ Rejected(i, r)
        /\ q \in Matching(i) /\ q > r
        /\ RowRecords(i, "taken", q) # {}
        /\ RowRecords(i, "action", q) # {}

(***************************************************************************)
(* C9: the row tryDispatch takes is the first row in declaration order     *)
(* whose from/event equal (state, event) and whose guard is absent or      *)
(* accepts; at most one row is taken per tryDispatch, and no row declared  *)
(* after the taken row has its guard evaluated or its action run.          *)
(***************************************************************************)
C9_FirstAcceptedRow ==
    \A i \in DOMAIN log :
        IsTransit(i) =>
        LET taken == {log[j].row : j \in {k \in (i + 1)..(TransitEnd(i) - 1) :
                                              log[k].op = "taken"}}
        IN  /\ Cardinality(taken) <= 1
            /\ \A r \in DOMAIN Corresps : Cardinality(RowRecords(i, "taken", r)) <= 1
            /\ \A r \in taken :
                  /\ r \in Matching(i)
                  /\ Accepted(i, r)
                  /\ \A q \in Matching(i) : q < r => (Rejected(i, q) /\ ~Accepted(i, q))
                  /\ \A q \in DOMAIN Corresps : q > r => Untouched(i, q)
                  /\ (Corresps[r].action # NULL) <=> (RowRecords(i, "action", r) # {})
            /\ \A r \in DOMAIN Corresps :
                  r \notin taken => RowRecords(i, "action", r) = {}
            /\ \A r \in DOMAIN Corresps :
                  r \notin Matching(i) => Untouched(i, r)
            /\ taken = {} =>
                  \A q \in Matching(i) : Rejected(i, q) /\ ~Accepted(i, q)

\* two rows with the same from/event: the first accepts and is taken, the
\* second is not looked at
C9_Witness ==
    \E i \in DOMAIN log : \E r, q \in DOMAIN Corresps :
        /\ IsTransit(i)
        /\ IsFirstMatch(i, r)
        /\ Corresps[r].cond # NULL
        /\ RowRecords(i, "taken", r) # {}
        /\ q \in Matching(i) /\ q > r
        /\ Untouched(i, q)

(***************************************************************************)
(* C10: a state change whose target equals the current state S runs one    *)
(* exit step and then one entry step, both on S and both with completed =  *)
(* true (the callbacks are invoked when S declares them); no step of any   *)
(* other state runs, the current state stays S, and the state change       *)
(* returns without history continuation.                                   *)
(***************************************************************************)
C10_SelfTransition ==
    \A i \in DOMAIN log :
        (IsChange(i) /\ log[i].st = log[i].to)
        => /\ PassSteps(i) = << <<"exit", log[i].to>>, <<"entry", log[i].to>> >>
           /\ \A j \in (i + 1)..(PassEnd(i) - 1) :
                 /\ log[j].op \in {"exit", "entry", "hist"}
                 /\ log[j].op = "exit" => (log[j].flag /\ (log[j].called <=> log[i].to \in Cfg.exit))
                 /\ log[j].op = "entry" => (log[j].flag /\ (log[j].called <=> log[i].to \in Cfg.entry))
           /\ PassEnd(i) \in DOMAIN log
           /\ log[PassEnd(i)].op = "return"
           /\ log[PassEnd(i)].st = log[i].to
           /\ log[PassEnd(i)].depth = log[i].depth

\* a self-transition of a nested state that declares both callbacks
C10_Witness ==
    \E i \in DOMAIN log :
        /\ IsChange(i)
        /\ log[i].st = log[i].to
        /\ ParentAt(log[i].to) # NULL
        /\ log[i].to \in Cfg.exit \cap Cfg.entry
        /\ current = log[i].to

(***************************************************************************)
(* C11: history update rule.  After a state change (a self-transition      *)
(* included), for every state S that was exited and has a parent, the      *)
(* history of S's parent is S, whether or not S declares an exit callback; *)
(* the history read for every state that is not the parent of an exited    *)
(* state is the same as before the state change.  Stated of the calls that *)
(* make one state change, so that the state variables before and after the *)
(* call are those before and after the state change.                       *)
(***************************************************************************)
TopChanges == {i \in DOMAIN log : IsChange(i) /\ log[i].depth = 0}

Exited == {log[j].st : j \in {k \in DOMAIN log : log[k].op = "exit"}}

HistoryBefore(s) == pre.svar[get_state_variable(s)].history

C11_HistoryUpdate ==
    (/\ call.op \in {"fire", "term"}
     /\ Cardinality(TopChanges) = 1
     /\ status \in {"ok", "freed"})
    => /\ \A s \in Exited : ParentAt(s) # NULL => HistoryAt(ParentAt(s)) = s
       /\ \A x \in States :
             x \notin {ParentAt(s) : s \in Exited} => HistoryAt(x) = HistoryBefore(x)

(***************************************************************************)
(* C12: a tryDispatch that takes an internal transition (a row without     *)
(* destination) runs the row's guard and action and reports success (the   *)
(* bubbling stops there), invokes no entry or exit callback and writes     *)
(* neither the current state nor any history; a call that makes no state   *)
(* change returns with the current state and every state's history and     *)
(* parent as they were.                                                    *)
(***************************************************************************)
TakesInternal(i, r) ==
    /\ IsTransit(i)
    /\ r \in DOMAIN Corresps
    /\ Corresps[r].to = NULL
    /\ RowRecords(i, "taken", r) # {}

C12_InternalTransition ==
    /\ \A i \in DOMAIN log : \A r \in DOMAIN Corresps :
          TakesInternal(i, r)
          => /\ Corresps[r].cond # NULL =>
                   \E j \in RowRecords(i, "guard", r) : log[j].flag
             /\ Corresps[r].action # NULL => RowRecords(i, "action", r) # {}
             /\ \A j \in (i + 1)..(TransitEnd(i) - 1) :
                   log[j].op \in {"guard", "action", "taken"}
             /\ \A j \in (i + 1)..Len(log) :
                   log[j].op = "transit" => log[j].pass # log[i].pass
             /\ (TransitEnd(i) = Len(log) + 1) => call.ret
    /\ (call.op = "fire" /\ \A j \in DOMAIN log : log[j].op # "change")
          => (current = pre.current /\ svar = pre.svar /\ status = "ok")

\* an internal transition with guard and action, declared on a composite
\* and taken by bubbling from a nested state with recorded histories around
C12_Witness ==
    /\ call.op = "fire"
    /\ \E i \in DOMAIN log : \E r \in DOMAIN Corresps :
          /\ TakesInternal(i, r)
          /\ Corresps[r].cond # NULL /\ Corresps[r].action # NULL
          /\ log[i].st \in AncestorsOf(pre.current)
          /\ HistoryAt(log[i].st) # NULL
    /\ \A j \in DOMAIN log : log[j].op # "change"
    /\ current = pre.current

(***************************************************************************)
(* C13: terminate on a machine whose current state is S performs a state   *)
(* change to end: S and every ancestor of S are exited once each, leaf to  *)
(* root, then end's entry step runs; when the state change finishes the    *)
(* current state is end and no state other than end has been entered.      *)
(***************************************************************************)
AllSteps ==
    [k \in 1..Len(SelectSeq(log, IsStep)) |->
        <<SelectSeq(log, IsStep)[k].op, SelectSeq(log, IsStep)[k].st>>]

TeardownSteps(s) ==
    [k \in 1..Len(ChainOf(s)) |-> <<"exit", ChainOf(s)[k]>>]
    \o << <<"entry", state_end>> >>

C13_Teardown ==
    call.op = "term"
    => /\ AllSteps = TeardownSteps(pre.current)
       /\ current = state_end
       /\ status = "freed"

(***************************************************************************)
(* C14: construction with a transition table applies every relation row    *)
(* (the state's parent and, for is_default rows, the parent's history)     *)
(* before any guard, action, entry or exit callback runs, then performs    *)
(* exactly one null-event tryDispatch, on start and without bubbling; the  *)
(* returned machine's current state is start if no null-event row from     *)
(* start was taken (or the row taken has no destination), and otherwise    *)
(* the leaf reached from that row's destination by history descent.        *)
(***************************************************************************)
\* the relation row k is the last one that writes the parent of its child
LastParentRow(k) ==
    \A j \in (k + 1)..Len(Cfg.rels) :
        get_state_variable(Cfg.rels[j].oneself) # get_state_variable(Cfg.rels[k].oneself)

\* the relation row k is the last one that seeds the history of its parent
LastDefaultRow(k) ==
    /\ Cfg.rels[k].is_default
    /\ \A j \in (k + 1)..Len(Cfg.rels) :
          ~(/\ Cfg.rels[j].is_default
            /\ get_state_variable(Cfg.rels[j].parent) = get_state_variable(Cfg.rels[k].parent))

\* the state history descent from t ends in
DescentFrom(t) ==
    IF HistoryAt(t) = NULL THEN t ELSE HistChainOf(t)[Len(HistChainOf(t))]

PassExits(i) == SelectSeq(PassRecords(i), LAMBDA e : e.op = "exit")

PassEntries(i) == SelectSeq(PassRecords(i), LAMBDA e : e.op = "entry")

C15_CompletedFlags ==
    \A i \in DOMAIN log :
        (IsChange(i) /\ log[i].st # log[i].to)
        => /\ \A k \in 1..Len(PassExits(i)) :
                 /\ PassExits(i)[k].flag <=> (k = Len(PassExits(i)))
                 /\ PassExits(i)[k].called <=> (PassExits(i)[k].st \in Cfg.exit)
           /\ \A k \in 1..Len(PassEntries(i)) :
                 /\ PassEntries(i)[k].flag <=> (PassEntries(i)[k].st = log[i].to)
                 /\ PassEntries(i)[k].flag <=> (k = Len(PassEntries(i)))
                 /\ PassEntries(i)[k].called <=> (PassEntries(i)[k].st \in Cfg.entry)
           /\ (Len(PassExits(i)) > 0 /\ Len(PassEntries(i)) > 0)
                 => ParentAt(PassExits(i)[Len(PassExits(i))].st)
                       = ParentAt(PassEntries(i)[1].st)

\* a pass that leaves two nested states and enters three, an ancestor with
\* an entry callback among them, and the exit callback of the last state
\* left is declared
C15_Witness ==
    \E i \in DOMAIN log :
        /\ IsChange(i)
        /\ Len(PassExits(i)) >= 2
        /\ Len(PassEntries(i)) >= 3
        /\ ~PassExits(i)[1].flag
        /\ PassExits(i)[Len(PassExits(i))].called
        /\ PassExits(i)[Len(PassExits(i))].flag
        /\ PassEntries(i)[1].called /\ ~PassEntries(i)[1].flag
        /\ PassEntries(i)[Len(PassEntries(i))].flag
        /\ ParentAt(PassEntries(i)[1].st) = NULL

(***************************************************************************)
(* C16: for every taken transition row with a destination the order of     *)
(* effects is: the guard is evaluated, then the row's action runs, then    *)
(* every exit callback of the departing branch, then the update of the     *)
(* current state, then every entry callback of the arriving branch; when   *)
(* the guard rejects, neither that row's action nor any exit or entry      *)
(* callback runs on account of that row.                                   *)
(***************************************************************************)
\* the records of the pass that starts at i, before position j
PassBefore(i, j, op) == {k \in (i + 1)..(j - 1) : log[k].op = op}

C16_OrderOfEffects ==
    /\ \A j \in DOMAIN log :
          (log[j].op = "taken" /\ log[j].to # NULL)
          => /\ \A k \in DOMAIN log :
                   (log[k].op \in {"guard", "action"} /\ log[k].row = log[j].row
                      /\ log[k].pass = log[j].pass /\ k > j) => FALSE
             /\ Corresps[log[j].row].cond # NULL =>
                   \E g \in 1..(j - 1) :
                      /\ log[g].op = "guard" /\ log[g].row = log[j].row /\ log[g].flag
                      /\ \A a \in 1..g : ~(log[a].op = "action" /\ log[a].row = log[j].row
                                             /\ log[a].pass = log[j].pass)
             /\ Corresps[log[j].row].action # NULL =>
                   (log[j - 1].op = "action" /\ log[j - 1].row = log[j].row)
             /\ IsChange(j + 1)
             /\ log[j + 1].to = log[j].to
             /\ \A k \in 1..j : log[k].pass = log[j].pass =>
                   log[k].op \notin {"exit", "entry", "setcur", "hist", "change"}
    /\ \A i \in DOMAIN log :
          (IsChange(i) /\ log[i].st # log[i].to)
          => \A k \in (i + 1)..(PassEnd(i) - 1) :
                /\ log[k].op = "exit" => PassBefore(i, k, "setcur") = {}
                /\ log[k].op = "entry" => Cardinality(PassBefore(i, k, "setcur")) = 1
                /\ log[k].op = "setcur" =>
                      (log[k].to = log[i].to /\ PassBefore(i, k, "entry") = {})
    /\ \A g \in DOMAIN log :
          (log[g].op = "guard" /\ ~log[g].flag)
          => /\ g < Len(log)
             /\ log[g + 1].op \in {"guard", "action", "taken", "fail"}
             /\ log[g + 1].op \in {"guard", "action", "taken"} => log[g + 1].row > log[g].row
             /\ \A k \in DOMAIN log :
                   (log[k].op \in {"action", "taken"} /\ log[k].pass = log[g].pass)
                   => log[k].row # log[g].row

\* a row with guard, action and destination is taken after the guard of
\* the row before it rejected; the change leaves and enters states with
\* callbacks
C16_Witness ==
    \E j \in DOMAIN log :
        /\ log[j].op = "taken" /\ log[j].to # NULL
        /\ Corresps[log[j].row].cond # NULL
        /\ Corresps[log[j].row].action # NULL
        /\ \E g \in 1..j : log[g].op = "guard" /\ ~log[g].flag
        /\ Len(PassExits(j + 1)) >= 2
        /\ Len(PassEntries(j + 1)) >= 1
        /\ PassExits(j + 1)[1].called
        /\ PassEntries(j + 1)[1].called
        /\ current = log[j].to

(***************************************************************************)
(* C17: every fire(machine, event) performs, after its bubbling pass and   *)
(* whether or not that pass took a row, exactly one null-event             *)
(* tryDispatch, on the state that is current at that moment; that pass     *)
(* consults only rows whose from is the current state and never bubbles to *)
(* its ancestors.  (A bubbling pass that ends in the failure of C2 has no  *)
(* after.)                                                                 *)
(***************************************************************************)
BubbleCompleted == InPass("bubble", {"crash"}) = <<>>

\* the current state when the bubbling pass is over
CurrentAfterBubble ==
    IF InPass("bubble", {"setcur"}) = <<>>
    THEN pre.current
    ELSE InPass("bubble", {"setcur"})[Len(InPass("bubble", {"setcur"}))].to

C17_ClosingNullDispatch ==
    (call.op = "fire" /\ BubbleCompleted)
    => /\ Len(InPass("null", {"transit"})) = 1
       /\ InPass("null", {"transit"})[1].ev = event_null
       /\ InPass("null", {"transit"})[1].st = CurrentAfterBubble
       /\ \A j, k \in DOMAIN log :
             (log[j].pass = "bubble" /\ log[k].pass = "null") => j < k
       /\ \A k \in 1..Len(InPass("null", {"guard", "action", "taken"})) :
             LET e == InPass("null", {"guard", "action", "taken"})[k]
             IN  /\ Corresps[e.row].from = CurrentAfterBubble
                 /\ Corresps[e.row].event = event_null
       /\ InPass("bubble", {"taken"}) = <<>> => CurrentAfterBubble = pre.current

\* the bubbling pass moved the machine into a nested state; the null event
\* is dispatched there, finds no row, and the guard-less null-event row of
\* an ancestor is not consulted
C17_Witness ==
    /\ call.op = "fire" /\ status = "ok"
    /\ InPass("bubble", {"taken"}) # <<>>
    /\ CurrentAfterBubble # pre.current
    /\ Len(InPass("null", {"transit"})) = 1
    /\ InPass("null", {"fail"}) # <<>>
    /\ current = CurrentAfterBubble
    /\ \E a \in AncestorsOf(current) : HasGuardlessNullRow(a)

(***************************************************************************)
(* C18: for every acyclic state hierarchy of nesting depth at most 5,      *)
(* every state change terminates, and the number of nested history         *)
(* continuation calls it makes is at most the depth of the hierarchy below *)
(* its target (each continuation descends exactly one level).              *)
(***************************************************************************)
ChildrenOf(t) == {s \in States : s # t /\ ParentAt(s) = t}

Max(S) == CHOOSE x \in S : \A y \in S : y <= x

\* the number of levels declared below t
RECURSIVE DepthBelow(_)
DepthBelow(t) ==
    IF ChildrenOf(t) = {} THEN 0 ELSE 1 + Max({DepthBelow(c) : c \in ChildrenOf(t)})

\* where the top-level state change that starts at i ends in the trace
ChangeEnd(i) ==
    IF \E j \in (i + 1)..Len(log) : log[j].depth = 0 /\ log[j].op \in {"return", "crash"}
    THEN CHOOSE j \in (i + 1)..Len(log) :
            /\ log[j].depth = 0 /\ log[j].op \in {"return", "crash"}
            /\ \A k \in (i + 1)..(j - 1) :
                  ~(log[k].depth = 0 /\ log[k].op \in {"return", "crash"})
    ELSE Len(log) + 1

\* the history continuation calls of the state change that starts at i
Continuations(i) ==
    {j \in (i + 1)..(ChangeEnd(i) - 1) : IsChange(j) /\ log[j].depth > 0}

C18_BoundedContinuation ==
    /\ status # "hang"
    /\ \A i \in TopChanges :
          /\ Cardinality(Continuations(i)) <= DepthBelow(log[i].to)
          /\ \A j \in Continuations(i) : ParentAt(log[j].to) = log[j].st

(***************************************************************************)
(* C19: when every state used in a relation owns its own variable and      *)
(* appears as the child in at most one relation row, then in every         *)
(* reachable state, for every state P, the recorded history of P is either *)
(* absent or a state whose parent is P, and a history that was set is not  *)
(* cleared.                                                                *)
(***************************************************************************)
UsedInRelation ==
    {Cfg.rels[k].oneself : k \in DOMAIN Cfg.rels}
    \cup {Cfg.rels[k].parent : k \in DOMAIN Cfg.rels}

OwnVariables == UsedInRelation \subseteq Cfg.variable

OneRowPerChild ==
    \A j, k \in DOMAIN Cfg.rels : j # k => Cfg.rels[j].oneself # Cfg.rels[k].oneself

C19_HistoryIsChild ==
    (OwnVariables /\ OneRowPerChild)
    => \A p \in States :
          /\ HistoryAt(p) # NULL => ParentAt(HistoryAt(p)) = p
          /\ HistoryBefore(p) # NULL => HistoryAt(p) # NULL

\* a composite whose history was seeded by a default row and has since been
\* rewritten by the exit of another child
C19_Witness ==
    /\ OwnVariables /\ OneRowPerChild
    /\ status = "ok"
    /\ \E p, c \in States :
          /\ IsDefaultChild(c, p)
          /\ HistoryBefore(p) = c
          /\ HistoryAt(p) \notin {NULL, c}
          /\ ParentAt(HistoryAt(p)) = p

(***************************************************************************)
(* C20: when every state used in a relation owns its own variable, then    *)
(* whenever a public operation (init, fire, tick) has returned normally,   *)
(* the current state has no recorded history substate: the machine never   *)
(* rests in a composite state from which history descent is still          *)
(* possible.                                                               *)
(***************************************************************************)
C20_RestsInLeaf ==
    (OwnVariables /\ call.op \in {"init", "fire", "update"} /\ status = "ok")
    => HistoryAt(current) = NULL

\* the call entered a composite with recorded history and descended; the
\* table has a child declared in two relation rows
C20_Witness ==
    /\ OwnVariables
    /\ ~OneRowPerChild
    /\ call.op = "fire"
    /\ status = "ok"
    /\ \E i \in TopChanges :
          /\ Continuations(i) # {}
          /\ HistoryAt(log[i].to) # NULL
          /\ current # log[i].to
    /\ HistoryAt(current) = NULL

====
